---- MODULE Spec2Model ----
(***************************************************************************)
(* Model of scripts/rollup/modules.js: the per-variant module resolution   *)
(* policy (module map, external list, alias table, replacement table).     *)
(* JS strings are TLA+ strings, JS arrays are sequences, JS objects are    *)
(* functions whose DOMAIN is the set of own keys.                          *)
(***************************************************************************)
EXTENDS Integers, Sequences, FiniteSets, TLC

(* ------------------------------ bounds -------------------------------- *)
MaxPaths == 2       \* longest list of path patterns a caller passes
MaxExternals == 2   \* longest base external list a caller passes
MaxStubs == 1       \* longest caller stub list
MaxExclude == 4     \* longest the leaked exclude array is allowed to grow

(* ------------------------- module-level data -------------------------- *)
excludeAtLoad ==
  << "**/__benchmarks__/**/*.js", "**/__tests__/**/*.js", "**/__mocks__/**/*.js" >>

UMD_DEV == "UMD_DEV"
UMD_PROD == "UMD_PROD"
NODE_DEV == "NODE_DEV"
NODE_PROD == "NODE_PROD"
FB_DEV == "FB_DEV"
FB_PROD == "FB_PROD"
RN_DEV == "RN_DEV"
RN_PROD == "RN_PROD"

ISOMORPHIC == "ISOMORPHIC"
RENDERER == "RENDERER"

BundleTypes ==
  {UMD_DEV, UMD_PROD, NODE_DEV, NODE_PROD, FB_DEV, FB_PROD, RN_DEV, RN_PROD}

ModuleTypes == {ISOMORPHIC, RENDERER}

\* variant of fbjsModules with fifteen names
fbjsModulesFifteen ==
  << "fbjs/lib/warning", "fbjs/lib/invariant", "fbjs/lib/emptyFunction",
     "fbjs/lib/emptyObject", "fbjs/lib/hyphenateStyleName",
     "fbjs/lib/getUnboundedScrollPosition", "fbjs/lib/camelizeStyleName",
     "fbjs/lib/containsNode", "fbjs/lib/shallowEqual",
     "fbjs/lib/getActiveElement", "fbjs/lib/focusNode",
     "fbjs/lib/EventListener", "fbjs/lib/memoizeStringOnly",
     "fbjs/lib/ExecutionEnvironment", "fbjs/lib/createNodesFromMarkup" >>

fbjsModules ==
  << "fbjs/lib/warning", "fbjs/lib/invariant", "fbjs/lib/emptyFunction",
     "fbjs/lib/emptyObject", "fbjs/lib/hyphenateStyleName",
     "fbjs/lib/getUnboundedScrollPosition", "fbjs/lib/camelizeStyleName",
     "fbjs/lib/containsNode", "fbjs/lib/shallowEqual",
     "fbjs/lib/getActiveElement", "fbjs/lib/focusNode",
     "fbjs/lib/EventListener", "fbjs/lib/memoizeStringOnly",
     "fbjs/lib/ExecutionEnvironment", "fbjs/lib/createNodesFromMarkup",
     "fbjs/lib/performanceNow" >>

devOnlyFilesToStubOut ==
  << "'ReactDebugCurrentFrame'", "'ReactComponentTreeHook'", "'ReactPerf'",
     "'ReactTestUtils'" >>

legacyModules ==
  << "create-react-class", "create-react-class/factory", "prop-types",
     "prop-types/checkPropTypes" >>

(* ------------------------- JS value helpers --------------------------- *)
Range(s) == { s[i] : i \in 1..Len(s) }

\* the empty object literal {}
EmptyObject == [k \in {} |-> ""]

\* one-property object literal
Prop(k, v) == [x \in {k} |-> v]

\* a switch that runs off its end returns undefined; otherwise an object
Undefined == [undefined |-> TRUE, obj |-> EmptyObject]
Obj(o) == [undefined |-> FALSE, obj |-> o]

\* one source of Object.assign copied onto target: later keys win,
\* an undefined source is skipped
assign1(target, source) ==
  IF source.undefined THEN target
  ELSE [k \in (DOMAIN target) \cup (DOMAIN source.obj) |->
          IF k \in DOMAIN source.obj THEN source.obj[k] ELSE target[k]]

RECURSIVE ObjectAssign(_, _)
ObjectAssign(target, sources) ==
  IF sources = <<>> THEN target
  ELSE ObjectAssign(assign1(target, Head(sources)), Tail(sources))

\* String.prototype.includes for a one-character needle
RECURSIVE includes(_, _)
includes(s, ch) ==
  IF Len(s) = 0 THEN FALSE
  ELSE IF SubSeq(s, 1, 1) = ch THEN TRUE
  ELSE includes(SubSeq(s, 2, Len(s)), ch)

startsWith(s, pre) ==
  Len(s) >= Len(pre) /\ SubSeq(s, 1, Len(pre)) = pre

endsWith(s, suf) ==
  Len(s) >= Len(suf) /\ SubSeq(s, Len(s) - Len(suf) + 1, Len(s)) = suf

\* s split on "/" into its segments
RECURSIVE splitFrom(_, _, _)
splitFrom(s, i, start) ==
  IF i > Len(s) THEN << SubSeq(s, start, Len(s)) >>
  ELSE IF SubSeq(s, i, i) = "/"
       THEN << SubSeq(s, start, i - 1) >> \o splitFrom(s, i + 1, i + 1)
       ELSE splitFrom(s, i + 1, start)

split(s) == splitFrom(s, 1, 1)

(* ------------------------------ path ---------------------------------- *)
\* process.cwd() of the build
Cwd == "/repo"

\* path.resolve of one argument: an absolute path is kept, a relative one
\* is joined to the working directory with a leading "./" dropped
resolve(p) ==
  IF startsWith(p, "/") THEN p
  ELSE IF startsWith(p, "./") THEN Cwd \o "/" \o SubSeq(p, 3, Len(p))
  ELSE Cwd \o "/" \o p

\* path.basename(file, ext): last segment, with ext cut off when the
\* segment ends with it and is not ext itself
basename(file, ext) ==
  LET segs == split(file)
      last == segs[Len(segs)]
  IN IF endsWith(last, ext) /\ last # ext
     THEN SubSeq(last, 1, Len(last) - Len(ext))
     ELSE last

(* ------------------------------ glob ---------------------------------- *)
\* one pattern segment against one path segment: "*suffix" or a literal
matchSegment(p, s) ==
  IF startsWith(p, "*") THEN endsWith(s, SubSeq(p, 2, Len(p)))
  ELSE p = s

\* a pattern's segments against a path's; "**" spans zero or more segments
RECURSIVE matchSegments(_, _)
matchSegments(pat, segs) ==
  IF pat = <<>> THEN segs = <<>>
  ELSE IF Head(pat) = "**"
       THEN \/ matchSegments(Tail(pat), segs)
            \/ segs # <<>> /\ matchSegments(pat, Tail(segs))
       ELSE /\ segs # <<>>
            /\ matchSegment(Head(pat), Head(segs))
            /\ matchSegments(Tail(pat), Tail(segs))

minimatch(file, pattern) == matchSegments(split(pattern), split(file))

(* ------------------------- files and globs ---------------------------- *)
\* the source tree on disk, as the directory listing enumerates it, in two
\* enumeration orders
TreeA ==
  << "packages/react/src/React.js",
     "packages/react/src/ReactCurrentOwner.js",
     "packages/react/src/__tests__/React-test.js",
     "packages/shared/React.js",
     "packages/shared/lowPriorityWarning.js",
     "packages/shared/__mocks__/ReactCurrentOwner.js" >>

TreeB ==
  << "packages/shared/__mocks__/ReactCurrentOwner.js",
     "packages/shared/lowPriorityWarning.js",
     "packages/shared/React.js",
     "packages/react/src/__tests__/React-test.js",
     "packages/react/src/ReactCurrentOwner.js",
     "packages/react/src/React.js" >>

Trees == {TreeA, TreeB}

PathPatterns ==
  { "packages/react/**/*.js", "packages/shared/**/*.js", "packages/**/*.js",
    "packages/events/**/*.js" }

\* what a caller pushes onto the array getExcludedHasteGlobs returned
PushedGlobs == { "**/React.js" }

Files == Range(TreeA) \cup Range(TreeB)

Globs == PathPatterns \cup Range(excludeAtLoad) \cup PushedGlobs

\* minimatch, path.basename(file, '.js') and path.resolve(file) tabulated
\* over the files and globs above, so that each is computed once
matches == [f \in Files |-> { g \in Globs : minimatch(f, g) }]

moduleNameOf == [f \in Files |-> basename(f, ".js")]

resolved == [f \in Files |-> resolve(f)]

\* primary collation order ('en') of the characters of a path:
\* punctuation, then digits, then letters with case ignored
CollationOrder == "_-./0123456789abcdefghijklmnopqrstuvwxyz"

LowerCase == "abcdefghijklmnopqrstuvwxyz"

UpperCase == "ABCDEFGHIJKLMNOPQRSTUVWXYZ"

\* the character of str at position i
charAt(str, i) == SubSeq(str, i, i)

\* first position of the character ch in str, 0 when there is none
indexOf(str, ch) ==
  LET at == { i \in 1..Len(str) : charAt(str, i) = ch }
  IN IF at = {} THEN 0 ELSE CHOOSE i \in at : \A j \in at : i <= j

toLower(ch) ==
  LET u == indexOf(UpperCase, ch)
  IN IF u = 0 THEN ch ELSE charAt(LowerCase, u)

primaryWeight(ch) == indexOf(CollationOrder, toLower(ch))

\* first level of the comparison: by primary weight at the first position
\* where the weights differ, a proper prefix first
comparePrimary(a, b) ==
  LET shorter == IF Len(a) < Len(b) THEN Len(a) ELSE Len(b)
      differ == { i \in 1..shorter :
                   primaryWeight(charAt(a, i)) # primaryWeight(charAt(b, i)) }
  IN IF differ = {}
     THEN IF Len(a) < Len(b) THEN -1 ELSE IF Len(a) > Len(b) THEN 1 ELSE 0
     ELSE LET i == CHOOSE i \in differ : \A j \in differ : i <= j
          IN IF primaryWeight(charAt(a, i)) < primaryWeight(charAt(b, i))
             THEN -1 ELSE 1

\* last level, for strings equal but for case: lower case first at the
\* first position where they differ
compareCase(a, b) ==
  LET differ == { i \in 1..Len(a) : charAt(a, i) # charAt(b, i) }
  IN IF differ = {} THEN 0
     ELSE LET i == CHOOSE i \in differ : \A j \in differ : i <= j
          IN IF indexOf(LowerCase, charAt(a, i)) # 0 THEN -1 ELSE 1

\* a.localeCompare(b, 'en')
localeCompare(a, b) ==
  LET primary == comparePrimary(a, b)
  IN IF primary # 0 THEN primary ELSE compareCase(a, b)

\* localeCompare tabulated over the files: the files each file sorts before
sortsBefore == [f \in Files |-> { g \in Files : localeCompare(f, g) < 0 }]

\* the files of the set listed that take positions i, i + 1, ... of its
\* sorted order: each file lands behind the files that sort before it
RECURSIVE sortedFrom(_, _)
sortedFrom(listed, i) ==
  IF i > Cardinality(listed) THEN <<>>
  ELSE << CHOOSE f \in listed :
            Cardinality({ g \in listed : f \in sortsBefore[g] }) = i - 1 >>
       \o sortedFrom(listed, i + 1)

\* Array.prototype.sort with that comparison, for distinct files
alphasort(files) == sortedFrom(Range(files), 1)

\* glob.sync(pattern, {ignore}): the files of the tree that match the
\* pattern and none of the ignore globs, sorted with localeCompare (the
\* call sets no nosort option)
sync(tree, pattern, ignore) ==
  LET keep(f) == /\ pattern \in matches[f]
                 /\ \A i \in 1..Len(ignore) : ignore[i] \notin matches[f]
  IN alphasort(SelectSeq(tree, keep))

(* --------------------------- createModuleMap -------------------------- *)
\* moduleMap[key] = value
setKey(obj, key, value) ==
  [k \in (DOMAIN obj) \cup {key} |-> IF k = key THEN value ELSE obj[k]]

\* delete moduleMap[key]
deleteKey(obj, key) == [k \in (DOMAIN obj) \ {key} |-> obj[k]]

\* paths.forEach(path => sync(path, {ignore}).forEach(...)): every file
\* visited by the two nested loops, in visiting order
RECURSIVE visited(_, _, _)
visited(tree, ignore, paths) ==
  IF paths = <<>> THEN <<>>
  ELSE sync(tree, Head(paths), ignore) \o visited(tree, ignore, Tail(paths))

\* variant of collect in which the first file with a basename keeps the key
RECURSIVE collectFirstWins(_, _)
collectFirstWins(moduleMap, files) ==
  IF files = <<>> THEN moduleMap
  ELSE collectFirstWins(
         IF moduleNameOf[Head(files)] \in DOMAIN moduleMap
         THEN moduleMap
         ELSE setKey(moduleMap, moduleNameOf[Head(files)], resolved[Head(files)]),
         Tail(files))

\* the body of the inner loop applied to the visited files in turn
RECURSIVE collect(_, _)
collect(moduleMap, files) ==
  IF files = <<>> THEN moduleMap
  ELSE collect(setKey(moduleMap, moduleNameOf[Head(files)], resolved[Head(files)]),
               Tail(files))

\* variant of createModuleMap that deletes the reserved names for FB_PROD only
createModuleMapProdOnly(tree, ignore, paths, extractErrors, bundleType) ==
  LET files == visited(tree, ignore, paths)
      scanned == collect(EmptyObject, files)
      moduleMap ==
        IF bundleType = FB_PROD
        THEN deleteKey(deleteKey(scanned, "ReactCurrentOwner"), "lowPriorityWarning")
        ELSE scanned
  IN [moduleMap |-> moduleMap,
      extracted |-> IF extractErrors THEN files ELSE <<>>]

\* variant of createModuleMap that invokes the hook whether or not it is set
createModuleMapAlwaysExtract(tree, ignore, paths, extractErrors, bundleType) ==
  LET files == visited(tree, ignore, paths)
      scanned == collect(EmptyObject, files)
      moduleMap ==
        IF bundleType = FB_DEV \/ bundleType = FB_PROD
        THEN deleteKey(deleteKey(scanned, "ReactCurrentOwner"), "lowPriorityWarning")
        ELSE scanned
  IN [moduleMap |-> moduleMap, extracted |-> files]

\* createModuleMap(paths, extractErrors, bundleType) run against a file
\* tree and the current contents of the exclude array; extracted is the
\* sequence of files the extractErrors hook was invoked with
createModuleMap(tree, ignore, paths, extractErrors, bundleType) ==
  LET files == visited(tree, ignore, paths)
      scanned == collect(EmptyObject, files)
      moduleMap ==
        IF bundleType = FB_DEV \/ bundleType = FB_PROD
        THEN deleteKey(deleteKey(scanned, "ReactCurrentOwner"), "lowPriorityWarning")
        ELSE scanned
  IN [moduleMap |-> moduleMap,
      extracted |-> IF extractErrors THEN files ELSE <<>>]

(* ----------------------------- alias sources -------------------------- *)
\* the object literal returned for the UMD bundles
umdNodeModules ==
  [moduleType \in ModuleTypes |->
     [k \in {"object-assign", "art/modes/current",
             "art/modes/fast-noSideEffects", "art/core/transform"} |->
        CASE k = "object-assign" ->
               IF moduleType = ISOMORPHIC
               THEN resolve("./node_modules/object-assign/index.js")
               ELSE resolve("./scripts/rollup/shims/rollup/assign.js")
          [] k = "art/modes/current" ->
               resolve("./node_modules/art/modes/current.js")
          [] k = "art/modes/fast-noSideEffects" ->
               resolve("./node_modules/art/modes/fast-noSideEffects.js")
          [] OTHER -> resolve("./node_modules/art/core/transform.js")]]

getNodeModules(bundleType, moduleType) ==
  IF bundleType \in {UMD_DEV, UMD_PROD}
  THEN Obj(umdNodeModules[moduleType])
  ELSE IF bundleType \in {NODE_DEV, NODE_PROD, FB_DEV, FB_PROD, RN_DEV, RN_PROD}
  THEN Obj(EmptyObject)
  ELSE Undefined

ignoreFBModules ==
  << "React", "ReactDOM", "ReactFeatureFlags", "ReactCurrentOwner",
     "lowPriorityWarning" >>

ignoreReactNativeModules == << "View" >>

\* the aliases object before and after the renderer entry is added
coreAliases ==
  Prop("reactProdInvariant", resolve("./packages/shared/reactProdInvariant.js"))

rendererAliases ==
  setKey(coreAliases, "react-reconciler",
         resolve("./packages/react-reconciler/index.js"))

getInternalModules(moduleType) ==
  IF moduleType = RENDERER THEN rendererAliases ELSE coreAliases

\* the object the forEach over fbjsModules fills in
fbjsModulesAlias ==
  [fbjsModule \in Range(fbjsModules) |-> resolve("./node_modules/" \o fbjsModule)]

\* variant of getFbjsModuleAliases that also aliases for the NODE bundles
getFbjsModuleAliasesNode(bundleType) ==
  IF bundleType \in {UMD_DEV, UMD_PROD, NODE_DEV, NODE_PROD}
  THEN Obj(fbjsModulesAlias)
  ELSE IF bundleType \in {FB_DEV, FB_PROD, RN_DEV, RN_PROD}
  THEN Obj(EmptyObject)
  ELSE Undefined

getFbjsModuleAliases(bundleType) ==
  IF bundleType \in {UMD_DEV, UMD_PROD}
  THEN Obj(fbjsModulesAlias)
  ELSE IF bundleType \in {NODE_DEV, NODE_PROD, FB_DEV, FB_PROD, RN_DEV, RN_PROD}
  THEN Obj(EmptyObject)
  ELSE Undefined

\* getAliases(paths, bundleType, moduleType, extractErrors); the hook
\* handed to createModuleMap is extractErrors && extractErrorCodes(opts)
getAliases(tree, ignore, paths, bundleType, moduleType, extractErrors) ==
  LET scan == createModuleMap(tree, ignore, paths, extractErrors, bundleType)
  IN [aliases |-> ObjectAssign(scan.moduleMap,
                               << Obj(getInternalModules(moduleType)),
                                  getNodeModules(bundleType, moduleType),
                                  getFbjsModuleAliases(bundleType) >>),
      extracted |-> scan.extracted]

(* --------------------------- getExternalModules ----------------------- *)
\* the switch of getExternalModules applied to the array it works on
pushExternals(externalModules, bundleType, moduleType) ==
  LET withUtilities == externalModules \o fbjsModules \o << "object-assign" >>
  IN IF bundleType \in {UMD_DEV, UMD_PROD}
     THEN IF moduleType # ISOMORPHIC
          THEN Append(externalModules, "react")
          ELSE externalModules
     ELSE IF bundleType \in {NODE_DEV, NODE_PROD, RN_DEV, RN_PROD}
     THEN IF moduleType # ISOMORPHIC
          THEN Append(withUtilities, "react")
          ELSE withUtilities
     ELSE IF bundleType \in {FB_DEV, FB_PROD}
     THEN LET reserved == withUtilities
                            \o << "ReactCurrentOwner", "lowPriorityWarning" >>
              framework == Append(reserved, "React")
          IN IF moduleType # ISOMORPHIC
             THEN IF "react-dom" \in Range(framework)
                  THEN Append(framework, "ReactDOM")
                  ELSE framework
             ELSE reserved
     ELSE externalModules

\* variant of getExternalModules that pushes onto the caller's own array
getExternalModulesInPlace(externals, bundleType, moduleType) ==
  [returned |-> pushExternals(externals, bundleType, moduleType),
   externals |-> pushExternals(externals, bundleType, moduleType)]

\* returned is the function's return value, externals the caller's array
\* as the call leaves it: the pushes go to the copy externals.slice()
getExternalModules(externals, bundleType, moduleType) ==
  [returned |-> pushExternals(externals, bundleType, moduleType),
   externals |-> externals]

(* -------------------------- replacement sources ----------------------- *)
replaceFbjsModuleAliases(bundleType) ==
  IF bundleType \in {FB_DEV, FB_PROD}
  THEN [k \in {"'react'", "'react-dom'"} |->
          IF k = "'react'" THEN "'React'" ELSE "'ReactDOM'"]
  ELSE EmptyObject

devOnlyModuleStub ==
  "'" \o resolve("./scripts/rollup/shims/rollup/DevOnlyStubShim.js") \o "'"

\* the object the forEach over devOnlyFilesToStubOut fills in
devOnlyModuleAliases ==
  [devOnlyModule \in Range(devOnlyFilesToStubOut) |-> devOnlyModuleStub]

\* variant of replaceDevOnlyStubbedModules that stubs in every PROD bundle
replaceDevOnlyStubbedModulesEveryProd(bundleType) ==
  IF bundleType \in {UMD_DEV, NODE_DEV, FB_DEV, RN_DEV}
  THEN Obj(EmptyObject)
  ELSE IF bundleType \in {FB_PROD, UMD_PROD, NODE_PROD, RN_PROD}
  THEN Obj(devOnlyModuleAliases)
  ELSE Undefined

replaceDevOnlyStubbedModules(bundleType) ==
  IF bundleType \in {UMD_DEV, NODE_DEV, FB_DEV, RN_DEV, RN_PROD}
  THEN Obj(EmptyObject)
  ELSE IF bundleType \in {FB_PROD, UMD_PROD, NODE_PROD}
  THEN Obj(devOnlyModuleAliases)
  ELSE Undefined

\* the key and value written for one legacy module
legacyKey(legacyModule) == "'" \o legacyModule \o "'"

legacyValue(legacyModule) ==
  LET modulePath == IF includes(legacyModule, "/")
                    THEN legacyModule
                    ELSE legacyModule \o "/index"
      resolvedPath == resolve("./node_modules/" \o modulePath)
  IN "'" \o resolvedPath \o "'"

\* the object the forEach over legacyModules fills in
modulesAlias ==
  [k \in { legacyKey(m) : m \in Range(legacyModules) } |->
     legacyValue(CHOOSE m \in Range(legacyModules) : legacyKey(m) = k)]

replaceLegacyModuleAliases(bundleType) ==
  IF bundleType \in {UMD_DEV, UMD_PROD}
  THEN Obj(modulesAlias)
  ELSE IF bundleType \in {NODE_DEV, NODE_PROD, FB_DEV, FB_PROD, RN_DEV, RN_PROD}
  THEN Obj(EmptyObject)
  ELSE Undefined

\* variant of replaceBundleStubModules that uses each entry as the key as is
replaceBundleStubModulesAsIs(bundleModulesToStub) ==
  IF bundleModulesToStub.isArray
  THEN [k \in Range(bundleModulesToStub.items) |-> devOnlyModuleStub]
  ELSE [k \in {} |-> ""]

\* bundleModulesToStub is [isArray, items]: anything that is not an
\* array contributes nothing
replaceBundleStubModules(bundleModulesToStub) ==
  IF bundleModulesToStub.isArray
  THEN [k \in { "'" \o m \o "'" : m \in Range(bundleModulesToStub.items) } |->
          devOnlyModuleStub]
  ELSE EmptyObject

\* featureFlags is a string; "" stands for every falsy argument
replaceFeatureFlags(featureFlags) ==
  IF featureFlags = "" THEN EmptyObject
  ELSE Prop("'ReactFeatureFlags'", "'" \o resolve(featureFlags) \o "'")

getDefaultReplaceModules(bundleType, bundleModulesToStub, featureFlags) ==
  ObjectAssign(EmptyObject,
               << Obj(replaceFbjsModuleAliases(bundleType)),
                  replaceDevOnlyStubbedModules(bundleType),
                  replaceLegacyModuleAliases(bundleType),
                  Obj(replaceBundleStubModules(bundleModulesToStub)),
                  Obj(replaceFeatureFlags(featureFlags)) >>)

(* ------------------------------ inputs -------------------------------- *)
\* a value of bundleType that bundles.js does not declare
Undeclared == "UNDECLARED"

BundleTypeInputs == BundleTypes \cup {Undeclared}

SeqsUpTo(S, n) == UNION { [1..k -> S] : k \in 0..n }

ExternalNames == { "react", "react-dom", "prop-types" }

StubNames == { "ReactDebugTools", "'ReactDebugTools'", "ReactPerf" }

StubInputs ==
  { [isArray |-> FALSE, items |-> <<>>] }
    \cup { [isArray |-> TRUE, items |-> l] : l \in SeqsUpTo(StubNames, MaxStubs) }

FeatureFlagInputs == { "", "./packages/shared/ReactFeatureFlags.js" }

(* ------------------------------- state -------------------------------- *)
\* One build invocation: the arguments of the policy call it makes.  A
\* behaviour makes that call as often as it likes, between calls of the
\* argument-free exports and whatever the caller does with the exclude
\* array it was handed.
Request(op, paths, extractErrors, externals, stubs, featureFlags) ==
  [op |-> op, paths |-> paths, extractErrors |-> extractErrors,
   externals |-> externals, bundleModulesToStub |-> stubs,
   featureFlags |-> featureFlags]

NoStubs == [isArray |-> FALSE, items |-> <<>>]

Requests ==
  { Request("getAliases", paths, extractErrors, <<>>, NoStubs, "") :
      paths \in SeqsUpTo(PathPatterns, MaxPaths), extractErrors \in BOOLEAN }
    \cup
  { Request("getExternalModules", <<>>, FALSE, externals, NoStubs, "") :
      externals \in SeqsUpTo(ExternalNames, MaxExternals) }
    \cup
  { Request("getDefaultReplaceModules", <<>>, FALSE, <<>>, stubs, featureFlags) :
      stubs \in StubInputs, featureFlags \in FeatureFlagInputs }

VARIABLES
  tree,       \* the file-system tree the scan runs against (never changes)
  variant,    \* bundleType of this build invocation
  role,       \* moduleType of this build invocation
  request,    \* the other arguments of this build invocation's policy call
  exclude,    \* contents of the module-level exclude array
  held,       \* the caller holds the array getExcludedHasteGlobs returned
  last,       \* the latest call to an exported function: its name, the
              \* caller's externals array as the call left it, the ignore
              \* list its scan handed to glob, and what it returned
  hookCalls   \* files the error-code extraction hook was invoked with by it

vars == << tree, variant, role, request, exclude, held, last, hookCalls >>

Call(op, callerExternals, ignore, result) ==
  [op |-> op, callerExternals |-> callerExternals, ignore |-> ignore,
   result |-> result]

Init ==
  /\ tree \in Trees
  /\ variant \in BundleTypeInputs
  /\ role \in ModuleTypes
  /\ request \in Requests
  /\ exclude = excludeAtLoad
  /\ held = FALSE
  /\ last = Call("load", <<>>, <<>>, <<>>)
  /\ hookCalls = <<>>

CallGetExcludedHasteGlobs ==
  /\ held' = TRUE
  /\ last' = Call("getExcludedHasteGlobs", <<>>, <<>>, exclude)
  /\ hookCalls' = <<>>
  /\ UNCHANGED << tree, variant, role, request, exclude >>

\* the caller pushes onto the array it was handed, which is the module's own
CallerPushesGlob ==
  /\ held
  /\ Len(exclude) < MaxExclude
  /\ \E g \in PushedGlobs : exclude' = Append(exclude, g)
  /\ UNCHANGED << tree, variant, role, request, held, last, hookCalls >>

CallGetAliases ==
  /\ request.op = "getAliases"
  /\ LET r == getAliases(tree, exclude, request.paths, variant, role,
                         request.extractErrors)
     IN /\ last' = Call("getAliases", <<>>, exclude, r.aliases)
        /\ hookCalls' = r.extracted
  /\ UNCHANGED << tree, variant, role, request, exclude, held >>

CallGetExternalModules ==
  /\ request.op = "getExternalModules"
  /\ LET r == getExternalModules(request.externals, variant, role)
     IN last' = Call("getExternalModules", r.externals, <<>>, r.returned)
  /\ hookCalls' = <<>>
  /\ UNCHANGED << tree, variant, role, request, exclude, held >>

CallGetDefaultReplaceModules ==
  /\ request.op = "getDefaultReplaceModules"
  /\ last' = Call("getDefaultReplaceModules", <<>>, <<>>,
                  getDefaultReplaceModules(variant, request.bundleModulesToStub,
                                           request.featureFlags))
  /\ hookCalls' = <<>>
  /\ UNCHANGED << tree, variant, role, request, exclude, held >>

CallIgnoreFBModules ==
  /\ last' = Call("ignoreFBModules", <<>>, <<>>, ignoreFBModules)
  /\ hookCalls' = <<>>
  /\ UNCHANGED << tree, variant, role, request, exclude, held >>

CallIgnoreReactNativeModules ==
  /\ last' = Call("ignoreReactNativeModules", <<>>, <<>>, ignoreReactNativeModules)
  /\ hookCalls' = <<>>
  /\ UNCHANGED << tree, variant, role, request, exclude, held >>

Next ==
  \/ CallGetExcludedHasteGlobs
  \/ CallerPushesGlob
  \/ CallGetAliases
  \/ CallGetExternalModules
  \/ CallGetDefaultReplaceModules
  \/ CallIgnoreFBModules
  \/ CallIgnoreReactNativeModules

Spec == Init /\ [][Next]_vars

TypeOK ==
  /\ tree \in Trees
  /\ variant \in BundleTypeInputs
  /\ role \in ModuleTypes
  /\ request \in Requests
  /\ held \in BOOLEAN
  /\ Len(exclude) <= MaxExclude

(* ----------------------------- properties ----------------------------- *)
IsCall(op) == last.op = op

\* what the latest getExternalModules call added behind the caller's list
Appended == SubSeq(last.result, Len(request.externals) + 1, Len(last.result))

\* number of positions of seq that hold x
Count(x, seq) == Cardinality({ i \in 1..Len(seq) : seq[i] = x })

\* the files of the tree that pattern selected in the latest scan
Selected(pattern) ==
  { f \in Range(tree) : /\ pattern \in matches[f]
                        /\ \A i \in 1..Len(last.ignore) : last.ignore[i] \notin matches[f] }

ReservedNames == { "ReactCurrentOwner", "lowPriorityWarning" }

DevOnlyLiterals ==
  { "'ReactDebugCurrentFrame'", "'ReactComponentTreeHook'", "'ReactPerf'",
    "'ReactTestUtils'" }

LegacyLiterals ==
  { "'create-react-class'", "'create-react-class/factory'", "'prop-types'",
    "'prop-types/checkPropTypes'" }

StubValue == "'/repo/scripts/rollup/shims/rollup/DevOnlyStubShim.js'"

\* C1: whatever the variant, the role and the base list, the list returned
\* by getExternalModules starts with the base list entry for entry, every
\* added name comes after it, and the caller's own list is as it was.
C1_BaseListIsPrefix ==
  IsCall("getExternalModules") =>
    /\ Len(last.result) >= Len(request.externals)
    /\ \A i \in 1..Len(request.externals) : last.result[i] = request.externals[i]
    /\ last.callerExternals = request.externals

C1_Witness ==
  /\ IsCall("getExternalModules")
  /\ Len(request.externals) = 2
  /\ request.externals[1] = request.externals[2]
  /\ Len(last.result) > Len(request.externals)

\* C2 as stated: for the NODE and RN bundles the returned list is the base
\* list, then fifteen utility names, then object-assign, then react iff the
\* role is not ISOMORPHIC.
C2_FifteenUtilities ==
  (IsCall("getExternalModules") /\ variant \in {NODE_DEV, NODE_PROD, RN_DEV, RN_PROD}) =>
    LET framework == IF role # ISOMORPHIC THEN << "react" >> ELSE <<>>
    IN /\ Len(Appended) = 15 + 1 + Len(framework)
       /\ \A i \in 1..15 : startsWith(Appended[i], "fbjs/lib/")
       /\ Appended[16] = "object-assign"
       /\ SubSeq(Appended, 17, Len(Appended)) = framework

\* C2 amended: for the NODE and RN bundles the returned list is the base
\* list, then the sixteen utility names below in exactly this order, then
\* object-assign, then react iff the role is not ISOMORPHIC, and nothing
\* else.
C2_SixteenUtilities ==
  (IsCall("getExternalModules") /\ variant \in {NODE_DEV, NODE_PROD, RN_DEV, RN_PROD}) =>
    LET framework == IF role # ISOMORPHIC THEN << "react" >> ELSE <<>>
    IN /\ Len(Appended) = 16 + 1 + Len(framework)
       /\ SubSeq(Appended, 1, 16)
            = << "fbjs/lib/warning",
                 "fbjs/lib/invariant",
                 "fbjs/lib/emptyFunction",
                 "fbjs/lib/emptyObject",
                 "fbjs/lib/hyphenateStyleName",
                 "fbjs/lib/getUnboundedScrollPosition",
                 "fbjs/lib/camelizeStyleName",
                 "fbjs/lib/containsNode",
                 "fbjs/lib/shallowEqual",
                 "fbjs/lib/getActiveElement",
                 "fbjs/lib/focusNode",
                 "fbjs/lib/EventListener",
                 "fbjs/lib/memoizeStringOnly",
                 "fbjs/lib/ExecutionEnvironment",
                 "fbjs/lib/createNodesFromMarkup",
                 "fbjs/lib/performanceNow" >>
       /\ Appended[17] = "object-assign"
       /\ SubSeq(Appended, 18, Len(Appended)) = framework
       /\ last.result = request.externals \o Appended

C2_Witness ==
  /\ IsCall("getExternalModules")
  /\ variant = NODE_DEV
  /\ role = ISOMORPHIC
  /\ request.externals # <<>>
  /\ Len(last.result) = Len(request.externals) + 17

\* C3: in the UMD, NODE and FB production bundles every one of the four
\* dev-only literals is a key of the replacement table and maps to the
\* shared stub, whatever the stub list and the feature-flag path; in every
\* DEV bundle and in RN_PROD a dev-only literal is a key only if the
\* caller's stub list put it there.
C3_DevOnlyStubbed ==
  IsCall("getDefaultReplaceModules") =>
    /\ variant \in {UMD_PROD, NODE_PROD, FB_PROD} =>
         \A k \in DevOnlyLiterals :
           k \in DOMAIN last.result /\ last.result[k] = StubValue
    /\ variant \in {UMD_DEV, NODE_DEV, FB_DEV, RN_DEV, RN_PROD} =>
         \A k \in DevOnlyLiterals :
           k \in DOMAIN last.result =>
             /\ request.bundleModulesToStub.isArray
             /\ \E m \in Range(request.bundleModulesToStub.items) : k = "'" \o m \o "'"

C3_Witness ==
  /\ IsCall("getDefaultReplaceModules")
  /\ variant = FB_PROD
  /\ request.featureFlags # ""
  /\ request.bundleModulesToStub.items = << "ReactPerf" >>
  /\ "'ReactTestUtils'" \in DOMAIN last.result

\* the scenario of C4: UMD_PROD, no feature flags, one stub entry that
\* already carries its quotes
C4_Scenario ==
  /\ IsCall("getDefaultReplaceModules")
  /\ variant = UMD_PROD
  /\ request.featureFlags = ""
  /\ request.bundleModulesToStub = [isArray |-> TRUE, items |-> << "'ReactDebugTools'" >>]

\* C4 as stated: in the scenario the table has a key for each legacy
\* literal, the four dev-only entries, the caller's literal
\* 'ReactDebugTools' itself mapped to the stub, and no feature-flag key.
C4_KeyIsCallerLiteral ==
  C4_Scenario =>
    /\ LegacyLiterals \subseteq DOMAIN last.result
    /\ \A k \in DevOnlyLiterals :
         k \in DOMAIN last.result /\ last.result[k] = StubValue
    /\ "'ReactDebugTools'" \in DOMAIN last.result
    /\ last.result["'ReactDebugTools'"] = StubValue
    /\ "'ReactFeatureFlags'" \notin DOMAIN last.result

\* C4 amended: in the scenario the table has a key for each legacy literal,
\* the four dev-only entries, and no feature-flag key; the caller's entry is
\* wrapped in one more pair of quotes, so the key mapped to the stub is
\* ''ReactDebugTools'' and 'ReactDebugTools' is not a key.
C4_KeyIsQuotedAgain ==
  C4_Scenario =>
    /\ LegacyLiterals \subseteq DOMAIN last.result
    /\ \A k \in DevOnlyLiterals :
         k \in DOMAIN last.result /\ last.result[k] = StubValue
    /\ "''ReactDebugTools''" \in DOMAIN last.result
    /\ last.result["''ReactDebugTools''"] = StubValue
    /\ "'ReactDebugTools'" \notin DOMAIN last.result
    /\ "'ReactFeatureFlags'" \notin DOMAIN last.result
    /\ Cardinality(DOMAIN last.result) = 9

C4_Witness ==
  /\ C4_Scenario
  /\ role = RENDERER
  /\ Cardinality(DOMAIN last.result) = 9

\* C5 as stated: with a bundle type that is not declared, no call of
\* getAliases, getExternalModules or getDefaultReplaceModules returns a
\* result.
C5_UndeclaredVariantFails ==
  ~ /\ variant \notin BundleTypes
    /\ \/ IsCall("getAliases")
       \/ IsCall("getExternalModules")
       \/ IsCall("getDefaultReplaceModules")

\* C6 as stated: a getAliases call that repeats the arguments of the
\* getAliases call before it, on the same tree, returns the same table,
\* whatever the caller did in between with the values it was handed.
C6_RepeatedCallAgrees ==
  [][ ( /\ IsCall("getAliases")
        /\ last'.op = "getAliases"
        /\ request' = request
        /\ tree' = tree /\ variant' = variant /\ role' = role )
      => last'.result = last.result ]_vars

\* C7: in the FB bundles the module map never has the reserved names as
\* keys, even when a scanned file has such a basename; in every other bundle
\* a scanned file with a reserved basename does give its key.  (No other
\* alias source writes these keys, so the alias table shows the map's.)
C7_ReservedNamesDeleted ==
  IsCall("getAliases") =>
    LET scanned == UNION { Selected(request.paths[i]) : i \in 1..Len(request.paths) }
    IN /\ variant \in {FB_DEV, FB_PROD} =>
            ReservedNames \cap DOMAIN last.result = {}
       /\ variant \notin {FB_DEV, FB_PROD} =>
            \A f \in scanned :
              \A n \in ReservedNames :
                endsWith(f, "/" \o n \o ".js") => n \in DOMAIN last.result

C7_Witness ==
  /\ IsCall("getAliases")
  /\ variant = FB_DEV
  /\ request.paths = << "packages/**/*.js" >>
  /\ "packages/react/src/ReactCurrentOwner.js" \in Selected(request.paths[1])
  /\ "packages/shared/lowPriorityWarning.js" \in Selected(request.paths[1])
  /\ "React" \in DOMAIN last.result

\* C8 as stated: with extraction enabled one scan hands every discovered
\* file to the hook exactly once; with extraction off the hook is not
\* called.
C8_HookOncePerFile ==
  IsCall("getAliases") =>
    LET scanned == UNION { Selected(request.paths[i]) : i \in 1..Len(request.paths) }
    IN IF request.extractErrors
       THEN \A f \in Files : Count(f, hookCalls) = IF f \in scanned THEN 1 ELSE 0
       ELSE hookCalls = <<>>

\* C8 amended: with extraction enabled one scan hands a file to the hook
\* once for every entry of the pattern list that matches it (twice when two
\* patterns match it); with extraction off the hook is not called.
C8_HookOncePerMatch ==
  IsCall("getAliases") =>
    IF request.extractErrors
    THEN \A f \in Files :
           Count(f, hookCalls) =
             Cardinality({ i \in 1..Len(request.paths) : f \in Selected(request.paths[i]) })
    ELSE hookCalls = <<>>

C8_Witness ==
  /\ IsCall("getAliases")
  /\ request.extractErrors
  /\ request.paths = << "packages/**/*.js", "packages/react/**/*.js" >>
  /\ Count("packages/react/src/React.js", hookCalls) = 2
  /\ Count("packages/shared/React.js", hookCalls) = 1

\* C9: for every declared bundle type and role, each utility name and
\* object-assign is either a key the alias sources contribute (UMD) or a
\* name getExternalModules appends (all others), never both, never neither.
C9_AliasedOrExternal ==
  variant \in BundleTypes =>
    \A n \in Range(fbjsModules) \cup {"object-assign"} :
      /\ IsCall("getExternalModules") =>
           (n \in Range(Appended))
             # (n \in DOMAIN getFbjsModuleAliases(variant).obj
                       \cup DOMAIN getNodeModules(variant, role).obj)
      /\ IsCall("getAliases") =>
           /\ (n \in DOMAIN last.result)
                # (n \in Range(getExternalModules(<<>>, variant, role).returned))
           /\ (n \in DOMAIN last.result) = (variant \in {UMD_DEV, UMD_PROD})

C9_Witness ==
  /\ IsCall("getExternalModules")
  /\ variant = UMD_PROD
  /\ role = RENDERER
  /\ Appended = << "react" >>
  /\ "fbjs/lib/warning" \in DOMAIN getFbjsModuleAliases(variant).obj

\* position of the last file handed to the hook that has the basename of
\* the file at position i
LastWithName(i) ==
  CHOOSE j \in 1..Len(hookCalls) :
    /\ moduleNameOf[hookCalls[j]] = moduleNameOf[hookCalls[i]]
    /\ \A k \in (j + 1)..Len(hookCalls) :
         moduleNameOf[hookCalls[k]] # moduleNameOf[hookCalls[i]]

\* the files that the i-th pattern of the request selected under basename
SelectedAs(i, name) ==
  { f \in Selected(request.paths[i]) : moduleNameOf[f] = name }

\* the basenames of the files that some pattern of the request selected
ScannedNames ==
  { moduleNameOf[f] :
      f \in UNION { Selected(request.paths[i]) : i \in 1..Len(request.paths) } }

\* the last pattern of the request, by position, that selected a file
\* with the basename
LastPattern(name) ==
  CHOOSE i \in 1..Len(request.paths) :
    /\ SelectedAs(i, name) # {}
    /\ \A j \in (i + 1)..Len(request.paths) : SelectedAs(j, name) = {}

\* the last file in scan order with the basename: of the files that the
\* last such pattern selected, the one that no other sorts behind
LastScanned(name) ==
  CHOOSE f \in SelectedAs(LastPattern(name), name) :
    \A g \in SelectedAs(LastPattern(name), name) : g \notin sortsBefore[f]

\* number of files selected by the patterns before position i
RECURSIVE ScannedBefore(_)
ScannedBefore(i) ==
  IF i <= 1 THEN 0
  ELSE ScannedBefore(i - 1) + Cardinality(Selected(request.paths[i - 1]))

\* the hook saw the patterns in the order of the request: its calls are
\* one block per pattern, blocks in pattern order, and the block of a
\* pattern holds exactly the files the pattern selected, each once and in
\* sorted order
HookFollowsScan ==
  /\ Len(hookCalls) = ScannedBefore(Len(request.paths) + 1)
  /\ \A i \in 1..Len(request.paths) :
       LET from == ScannedBefore(i)
           size == Cardinality(Selected(request.paths[i]))
       IN /\ { hookCalls[k] : k \in (from + 1)..(from + size) }
               = Selected(request.paths[i])
          /\ \A k, l \in (from + 1)..(from + size) :
               k < l => hookCalls[l] \in sortsBefore[hookCalls[k]]

\* the key of every basename in names maps to the resolved path of the
\* last file in scan order with that basename, no other basename of a
\* file is a key, and when the hook is on it saw the files in scan order
\* and the value of a key is the last file it saw with that basename
LastFileWinsFor(names) ==
  /\ \A name \in names :
       /\ name \in DOMAIN last.result
       /\ last.result[name] = "/repo/" \o LastScanned(name)
  /\ { moduleNameOf[f] : f \in Files } \cap DOMAIN last.result = names
  /\ ScannedNames = {} =>
       { moduleNameOf[f] : f \in Files } \cap DOMAIN last.result = {}
  /\ request.extractErrors =>
       /\ HookFollowsScan
       /\ \A i \in 1..Len(hookCalls) :
            moduleNameOf[hookCalls[i]] \in names =>
              last.result[moduleNameOf[hookCalls[i]]]
                = "/repo/" \o hookCalls[LastWithName(i)]
  /\ ~request.extractErrors => hookCalls = <<>>

\* C10 as stated: in every getAliases call the patterns are scanned in the
\* order of the request and the files of a pattern in sorted order; every
\* basename among the scanned files is a key, mapped to the resolved path
\* of the last scanned file with that basename, and a scan that finds no
\* file adds no key.
C10_LastFileWins ==
  IsCall("getAliases") => LastFileWinsFor(ScannedNames)

\* C10 amended: as stated, except that in the FB bundles the basenames
\* ReactCurrentOwner and lowPriorityWarning are not keys.
C10_LastFileWinsButReserved ==
  IsCall("getAliases") =>
    LastFileWinsFor(IF variant \in {FB_DEV, FB_PROD}
                    THEN ScannedNames \ ReservedNames
                    ELSE ScannedNames)

C10_Witness ==
  /\ IsCall("getAliases")
  /\ request.extractErrors
  /\ request.paths = << "packages/**/*.js", "packages/react/**/*.js" >>
  /\ "packages/shared/React.js" \in Range(hookCalls)
  /\ last.result["React"] = "/repo/packages/react/src/React.js"

\* the scan of packages/**/*.js hands the hook the files in sorted order,
\* whatever order the directory listing has
ScanIsSorted ==
  ( /\ IsCall("getAliases")
    /\ request.extractErrors
    /\ request.paths = << "packages/**/*.js" >>
    /\ last.ignore = excludeAtLoad )
  => hookCalls = << "packages/react/src/React.js",
                    "packages/react/src/ReactCurrentOwner.js",
                    "packages/shared/lowPriorityWarning.js",
                    "packages/shared/React.js" >>

====
